---- MODULE Spec2Model ----
(***************************************************************************)
(* A model of the CTA BusTracker client (ctabustracker/bustracker.py):     *)
(* the client's configuration, the fetch-with-retry loop of _grab_url and  *)
(* the XML shaping done by each public method.                             *)
(*                                                                         *)
(* An XML node is a record [kind, name, string, kids]: kind "tag" for an   *)
(* element, "text" for a NavigableString, "none" for Python's None as the  *)
(* result of a failed find.  Python's None as a string value is PyNone.    *)
(***************************************************************************)
EXTENDS Integers, Sequences, FiniteSets, TLC

\* ------------------------------------------------------------------ bounds
MaxAttempts == 3
MaxVehicles == 1
MaxStops == 2
MaxPatterns == 2
MaxBulletins == 1
MaxDelay == 2
MaxBackoff == 2

\* --------------------------------------------------------- program constants
CTA_API_VERSION == "v1"
CTA_API_ROOT_URL == "http://www.ctabustracker.com/bustime/api"

\* ------------------------------------------------------------- XML values
PyNone == "<None>"
NoneNode == [kind |-> "none", name |-> "", string |-> "", kids |-> <<>>]
Text(s) == [kind |-> "text", name |-> "", string |-> s, kids |-> <<>>]
Tag(n, kids) == [kind |-> "tag", name |-> n, string |-> "", kids |-> kids]
Leaf(n, s) == Tag(n, <<Text(s)>>)
Empty(n) == Tag(n, <<>>)
Soup(tags) == Tag("bustime-response", tags)

\* str(x): Python's str of a string or of None
Str(s) == IF s = PyNone THEN "None" ELSE s

\* tag.string: the single NavigableString child, or the .string of a single
\* child tag; None when the tag has no child or more than one
RECURSIVE String(_)
String(node) ==
    IF Len(node.kids) # 1 THEN PyNone
    ELSE IF node.kids[1].kind = "text" THEN node.kids[1].string
    ELSE String(node.kids[1])

IsNamed(n, name) == n.kind = "tag" /\ n.name = name

\* tag.findAll(name): every matching descendant, in document order
RECURSIVE findAll(_, _), FindAllFrom(_, _, _)
findAll(node, name) == FindAllFrom(node.kids, 1, name)
FindAllFrom(kids, i, name) ==
    IF i > Len(kids) THEN <<>>
    ELSE (IF IsNamed(kids[i], name) THEN <<kids[i]>> ELSE <<>>)
         \o findAll(kids[i], name) \o FindAllFrom(kids, i + 1, name)

\* tag.find(name) and tag.<name>: the first match in document order, or None
RECURSIVE find(_, _), FindFrom(_, _, _)
find(node, name) == FindFrom(node.kids, 1, name)
FindFrom(kids, i, name) ==
    IF i > Len(kids) THEN NoneNode
    ELSE IF IsNamed(kids[i], name) THEN kids[i]
    ELSE LET below == find(kids[i], name)
         IN  IF below # NoneNode THEN below ELSE FindFrom(kids, i + 1, name)

\* bool(x) of a find result: a Tag is truthy, None is falsy
Bool(node) == node # NoneNode

\* ----------------------------------------------------------- conversions
IsIntText(s) == s \in {"334", "83642", "1200", "0"}
IntValue(s) ==
    CASE s = "334" -> 334 [] s = "83642" -> 83642 [] s = "1200" -> 1200 [] OTHER -> 0

IsFloatText(s) == IsIntText(s) \/ s \in {"26788.9", "0.5"}
FloatValue(s) ==
    CASE s = "26788.9" -> [whole |-> 26788, tenths |-> 9]
      [] s = "0.5"     -> [whole |-> 0, tenths |-> 5]
      [] OTHER         -> [whole |-> IntValue(s), tenths |-> 0]
\* int(f): truncation toward zero
IntOfFloat(f) == f.whole

\* datetime.strptime(s, fmt): the text must match the whole format
FmtSeconds == "%Y%m%d %H:%M:%S"
FmtMinutes == "%Y%m%d %H:%M"
IsTimeText(s, fmt) ==
    \/ fmt = FmtSeconds /\ s = "20171112 20:07:47"
    \/ fmt = FmtMinutes /\ s \in {"20171112 20:07", "20171112 20:15"}
Strptime(s, fmt) ==
    CASE s = "20171112 20:07:47" ->
           [year |-> 2017, month |-> 11, day |-> 12, hour |-> 20, minute |-> 7, second |-> 47]
      [] s = "20171112 20:07" ->
           [year |-> 2017, month |-> 11, day |-> 12, hour |-> 20, minute |-> 7, second |-> 0]
      [] s = "20171112 20:15" ->
           [year |-> 2017, month |-> 11, day |-> 12, hour |-> 20, minute |-> 15, second |-> 0]
      [] OTHER ->
           [year |-> 0, month |-> 0, day |-> 0, hour |-> 0, minute |-> 0, second |-> 0]

\* The exception raised by conv(tag.<name>.string), "" when there is none
FieldError(tag, name, conv) ==
    LET n == find(tag, name)
        s == String(n)
    IN  IF n = NoneNode THEN "AttributeError"
        ELSE CASE conv = "str"   -> ""
               [] conv = "int"   -> IF s = PyNone THEN "TypeError"
                                    ELSE IF IsIntText(s) THEN "" ELSE "ValueError"
               [] conv = "float" -> IF s = PyNone THEN "TypeError"
                                    ELSE IF IsFloatText(s) THEN "" ELSE "ValueError"
               [] conv = "time_s" -> IF s = PyNone THEN "TypeError"
                                     ELSE IF IsTimeText(s, FmtSeconds) THEN "" ELSE "ValueError"
               [] conv = "time_m" -> IF s = PyNone THEN "TypeError"
                                     ELSE IF IsTimeText(s, FmtMinutes) THEN "" ELSE "ValueError"

\* The first exception among the fields, evaluated in order; "" when none
RECURSIVE FirstError(_, _)
FirstError(tag, fields) ==
    IF fields = <<>> THEN ""
    ELSE LET e == FieldError(tag, Head(fields)[1], Head(fields)[2])
         IN  IF e # "" THEN e ELSE FirstError(tag, Tail(fields))

Returned(v) == [status |-> "returned", value |-> v, error |-> [kind |-> "", attempt |-> 0]]
Raised(kind, attempt) ==
    [status |-> "raised", value |-> <<>>, error |-> [kind |-> kind, attempt |-> attempt]]
NoResult == [status |-> "none", value |-> <<>>, error |-> [kind |-> "", attempt |-> 0]]

\* dict[k] = v
DictSet(d, k, v) == [x \in (DOMAIN d) \cup {k} |-> IF x = k THEN v ELSE d[x]]
EmptyDict == <<>>

\* ---------------------------------------------------------- get_vehicles
VehicleFields ==
    << <<"vid", "str">>, <<"tmstmp", "time_s">>, <<"lat", "str">>, <<"lon", "str">>,
       <<"hdg", "int">>, <<"pid", "str">>, <<"rt", "str">>, <<"des", "str">>,
       <<"pdist", "float">> >>

\* variant: the text of the dly tag is not compared
DelayedAnyDly(tag) == Bool(find(tag, "dly"))
\* bool(tag.find('dly')) and tag.dly.string == 'true'
Delayed(tag) == Bool(find(tag, "dly")) /\ String(find(tag, "dly")) = "true"

VehicleRecord(tag) ==
    [id                  |-> Str(String(find(tag, "vid"))),
     last_update         |-> Strptime(String(find(tag, "tmstmp")), FmtSeconds),
     latitude            |-> Str(String(find(tag, "lat"))),
     longitude           |-> Str(String(find(tag, "lon"))),
     heading             |-> IntValue(String(find(tag, "hdg"))),
     pattern_id          |-> Str(String(find(tag, "pid"))),
     route_id            |-> Str(String(find(tag, "rt"))),
     destination         |-> Str(String(find(tag, "des"))),
     distance_into_route |-> FloatValue(String(find(tag, "pdist"))),
     delayed             |-> Delayed(tag)]

\* The first exception over a sequence of tags, "" when none
RECURSIVE FirstTagError(_, _)
FirstTagError(tags, fields) ==
    IF tags = <<>> THEN ""
    ELSE LET e == FirstError(Head(tags), fields)
         IN  IF e # "" THEN e ELSE FirstTagError(Tail(tags), fields)

get_vehicles_parse(soup) ==
    LET vehicle_tags == findAll(soup, "vehicle")
        e == FirstTagError(vehicle_tags, VehicleFields)
    IN  IF e # "" THEN Raised(e, 0)
        ELSE Returned([i \in 1..Len(vehicle_tags) |-> VehicleRecord(vehicle_tags[i])])

\* ---------------------------------------------------------------- get_time
get_time_parse(soup) ==
    LET e == FirstError(soup, << <<"tm", "time_s">> >>)
    IN  IF e # "" THEN Raised(e, 0)
        ELSE Returned(Strptime(String(find(soup, "tm")), FmtSeconds))

\* ------------------------------------------------------ get_route_vehicles
RouteVehicleFields ==
    << <<"vid", "str">>, <<"tmstmp", "time_m">>, <<"lat", "str">>, <<"lon", "str">>,
       <<"hdg", "int">>, <<"pid", "str">>, <<"rt", "str">>, <<"des", "str">>,
       <<"pdist", "float">> >>

RouteVehicleRecord(tag) ==
    [VehicleRecord(tag) EXCEPT
        !.last_update = Strptime(String(find(tag, "tmstmp")), FmtMinutes)]

RECURSIVE RouteVehiclesLoop(_, _)
RouteVehiclesLoop(tags, vehicles) ==
    IF tags = <<>> THEN vehicles
    ELSE RouteVehiclesLoop(Tail(tags),
                           DictSet(vehicles, Str(String(find(Head(tags), "vid"))),
                                   RouteVehicleRecord(Head(tags))))

get_route_vehicles_parse(soup) ==
    LET tags == findAll(soup, "vehicle")
        e == FirstTagError(tags, RouteVehicleFields)
    IN  IF e # "" THEN Raised(e, 0) ELSE Returned(RouteVehiclesLoop(tags, EmptyDict))

\* -------------------------------------------------------------- get_routes
RouteFields == << <<"rt", "str">>, <<"rtnm", "str">> >>

RECURSIVE RoutesLoop(_, _)
RoutesLoop(tags, routes) ==
    IF tags = <<>> THEN routes
    ELSE RoutesLoop(Tail(tags),
                    DictSet(routes, Str(String(find(Head(tags), "rt"))),
                            [id   |-> Str(String(find(Head(tags), "rt"))),
                             name |-> Str(String(find(Head(tags), "rtnm")))]))

get_routes_parse(soup) ==
    LET tags == findAll(soup, "route")
        e == FirstTagError(tags, RouteFields)
    IN  IF e # "" THEN Raised(e, 0) ELSE Returned(RoutesLoop(tags, EmptyDict))

\* ---------------------------------------------------- get_route_directions
get_route_directions_parse(soup) ==
    LET tags == findAll(soup, "dir")
    IN  Returned([i \in 1..Len(tags) |-> Str(String(tags[i]))])

\* -------------------------------------------------------- get_route_stops
StopFields ==
    << <<"stpid", "str">>, <<"stpnm", "str">>, <<"lat", "str">>, <<"lon", "str">> >>

\* variant: only a missing lat tag skips the stop
StopKeptLatOnly(tag) == find(tag, "lat") # NoneNode
\* the body of the try block raises no AttributeError
StopKept(tag) == FirstError(tag, StopFields) # "AttributeError"

StopRecord(tag) ==
    [id        |-> Str(String(find(tag, "stpid"))),
     name      |-> Str(String(find(tag, "stpnm"))),
     latitude  |-> Str(String(find(tag, "lat"))),
     longitude |-> Str(String(find(tag, "lon")))]

RECURSIVE StopsLoop(_, _)
StopsLoop(tags, stops) ==
    IF tags = <<>> THEN stops
    ELSE LET tag == Head(tags)
         IN  IF StopKept(tag)
             THEN StopsLoop(Tail(tags),
                            DictSet(stops, Str(String(find(tag, "stpid"))), StopRecord(tag)))
             ELSE StopsLoop(Tail(tags), stops)

get_route_stops_parse(soup) == Returned(StopsLoop(findAll(soup, "stop"), EmptyDict))

\* ------------------------------------------------------------ get_pattern
PatternFields == << <<"pid", "str">>, <<"ln", "float">>, <<"rtdir", "str">> >>
PointFields ==
    << <<"seq", "str">>, <<"typ", "str">>, <<"lat", "str">>, <<"lon", "str">> >>
StopPointFields == << <<"stpid", "str">>, <<"stpnm", "str">> >>

IsStopPoint(pt) == Str(String(find(pt, "typ"))) = "S"

PointError(pt) ==
    LET e == FirstError(pt, PointFields)
    IN  IF e # "" THEN e
        ELSE IF IsStopPoint(pt) THEN FirstError(pt, StopPointFields) ELSE ""

RECURSIVE FirstPointError(_)
FirstPointError(pts) ==
    IF pts = <<>> THEN ""
    ELSE IF PointError(Head(pts)) # "" THEN PointError(Head(pts))
    ELSE FirstPointError(Tail(pts))

PointRecord(pt) ==
    [id        |-> Str(String(find(pt, "seq"))),
     type      |-> Str(String(find(pt, "typ"))),
     latitude  |-> Str(String(find(pt, "lat"))),
     longitude |-> Str(String(find(pt, "lon"))),
     stop_id   |-> IF IsStopPoint(pt) THEN Str(String(find(pt, "stpid"))) ELSE PyNone,
     stop_name |-> IF IsStopPoint(pt) THEN Str(String(find(pt, "stpnm"))) ELSE PyNone]

RECURSIVE PathLoop(_, _)
PathLoop(pts, path) ==
    IF pts = <<>> THEN path
    ELSE PathLoop(Tail(pts),
                  DictSet(path, Str(String(find(Head(pts), "seq"))), PointRecord(Head(pts))))

PatternRecord(tag) ==
    [id              |-> Str(String(find(tag, "pid"))),
     length          |-> IntOfFloat(FloatValue(String(find(tag, "ln")))),
     route_direction |-> Str(String(find(tag, "rtdir"))),
     path            |-> PathLoop(findAll(tag, "pt"), EmptyDict)]

\* variant: the length test is off by one
AmbiguousOverTwo(pattern_tags) == Len(pattern_tags) > 2
\* len(pattern_tags) > 1
Ambiguous(pattern_tags) == Len(pattern_tags) > 1

get_pattern_parse(soup) ==
    LET pattern_tags == findAll(soup, "ptr")
    IN  IF Ambiguous(pattern_tags) THEN Raised("Exception", 0)
        ELSE IF pattern_tags = <<>> THEN Raised("IndexError", 0)
        ELSE LET tag == pattern_tags[1]
                 e == FirstError(tag, PatternFields)
                 pe == FirstPointError(findAll(tag, "pt"))
             IN  IF e # "" THEN Raised(e, 0)
                 ELSE IF pe # "" THEN Raised(pe, 0)
                 ELSE Returned(PatternRecord(tag))

\* ------------------------------------------------------ get_route_patterns
RECURSIVE FirstPatternError(_)
FirstPatternError(tags) ==
    IF tags = <<>> THEN ""
    ELSE LET e == FirstError(Head(tags), PatternFields)
             pe == FirstPointError(findAll(Head(tags), "pt"))
         IN  IF e # "" THEN e ELSE IF pe # "" THEN pe ELSE FirstPatternError(Tail(tags))

RECURSIVE PatternsLoop(_, _)
PatternsLoop(tags, patterns) ==
    IF tags = <<>> THEN patterns
    ELSE PatternsLoop(Tail(tags),
                      DictSet(patterns, Str(String(find(Head(tags), "pid"))),
                              PatternRecord(Head(tags))))

get_route_patterns_parse(soup) ==
    LET tags == findAll(soup, "ptr")
        e == FirstPatternError(tags)
    IN  IF e # "" THEN Raised(e, 0) ELSE Returned(PatternsLoop(tags, EmptyDict))

\* ------------------------------------------------------ _parse_predictions
PredictionFields ==
    << <<"tmstmp", "time_m">>, <<"typ", "str">>, <<"stpid", "str">>, <<"stpnm", "str">>,
       <<"dstp", "int">>, <<"vid", "str">>, <<"rt", "str">>, <<"rtdir", "str">>,
       <<"des", "str">>, <<"prdtm", "time_m">> >>

PredictionRecord(tag) ==
    [last_update             |-> Strptime(String(find(tag, "tmstmp")), FmtMinutes),
     type                    |-> Str(String(find(tag, "typ"))),
     stop_id                 |-> Str(String(find(tag, "stpid"))),
     stop_name               |-> Str(String(find(tag, "stpnm"))),
     distance_to_destination |-> IntValue(String(find(tag, "dstp"))),
     vehicle_id              |-> Str(String(find(tag, "vid"))),
     route_id                |-> Str(String(find(tag, "rt"))),
     direction               |-> Str(String(find(tag, "rtdir"))),
     destination             |-> Str(String(find(tag, "des"))),
     prediction              |-> Strptime(String(find(tag, "prdtm")), FmtMinutes),
     delayed                 |-> Delayed(tag)]

parse_predictions(soup) ==
    LET tags == findAll(soup, "prd")
        e == FirstTagError(tags, PredictionFields)
    IN  IF e # "" THEN Raised(e, 0)
        ELSE Returned([i \in 1..Len(tags) |-> PredictionRecord(tags[i])])

\* ------------------------------------------------ _parse_service_bulletins
BulletinFields ==
    << <<"sbj", "str">>, <<"dtl", "str">>, <<"brf", "str">>, <<"prty", "str">> >>

\* hasattr(x, name) of a Tag: Tag.__getattr__ answers every plain name with
\* find(name), None included, so the attribute always exists; a
\* NavigableString has no attribute 'name'
hasattr(x, name) == IF x.kind = "tag" THEN TRUE ELSE name = "string"

\* the loop over the children of tag.srvc
RECURSIVE AffectsLoop(_, _)
AffectsLoop(elems, affects) ==
    IF elems = <<>> THEN affects
    ELSE LET elem == Head(elems)
         IN  IF ~hasattr(elem, "name") THEN AffectsLoop(Tail(elems), affects)
             ELSE IF elem.name = "stpid"
                  THEN AffectsLoop(Tail(elems), Append(affects, <<"stop", Str(String(elem))>>))
             ELSE IF elem.name = "rt"
                  THEN AffectsLoop(Tail(elems), Append(affects, <<"route", Str(String(elem))>>))
             ELSE AffectsLoop(Tail(elems), affects)

\* The exception raised while building the bulletin of an sb tag, "" when none:
\* iterating tag.srvc when it is None raises TypeError
BulletinError(tag) ==
    LET e == FirstError(tag, BulletinFields)
    IN  IF e # "" THEN e
        ELSE IF hasattr(tag, "srvc") /\ find(tag, "srvc") = NoneNode THEN "TypeError"
        ELSE ""

BulletinRecord(tag) ==
    [title         |-> Str(String(find(tag, "sbj"))),
     details_full  |-> Str(String(find(tag, "dtl"))),
     details_short |-> Str(String(find(tag, "brf"))),
     priority      |-> Str(String(find(tag, "prty"))),
     affects       |-> IF hasattr(tag, "srvc")
                       THEN AffectsLoop(find(tag, "srvc").kids, <<>>)
                       ELSE <<>>]

RECURSIVE FirstBulletinError(_)
FirstBulletinError(tags) ==
    IF tags = <<>> THEN ""
    ELSE IF BulletinError(Head(tags)) # "" THEN BulletinError(Head(tags))
    ELSE FirstBulletinError(Tail(tags))

parse_service_bulletins(soup) ==
    LET tags == findAll(soup, "sb")
        e == FirstBulletinError(tags)
    IN  IF e # "" THEN Raised(e, 0)
        ELSE Returned([i \in 1..Len(tags) |-> BulletinRecord(tags[i])])

\* --------------------------------------------------- the server's responses
SeqsUpTo(S, n) == UNION {[1..k -> S] : k \in 0..n}

VehicleHead ==
    << Leaf("vid", "1870"), Leaf("tmstmp", "20171112 20:07:47"),
       Leaf("lat", "41.9783533387265"), Leaf("lon", "-87.68994619078555"),
       Leaf("hdg", "334"), Leaf("pid", "1180"), Leaf("rt", "49"),
       Leaf("des", "Berwyn"), Leaf("pdist", "83642") >>
VehicleTail == << Leaf("tablockid", "49 -503"), Leaf("tatripid", "67"), Empty("zone") >>
DlyKids ==
    { <<>>, <<Leaf("dly", "true")>>, <<Leaf("dly", "false")>>, <<Empty("dly")>> }
VehicleTags ==
    {Tag("vehicle", VehicleHead \o d \o VehicleTail) : d \in DlyKids}
    \cup {Tag("vehicle", Tail(VehicleHead) \o d \o VehicleTail) :
             d \in {<<Leaf("dly", "true")>>}}

StopTags ==
    { Tag("stop", <<Leaf("stpid", "1"), Leaf("stpnm", "Clark"), Leaf("lat", "41.9"), Leaf("lon", "-87.6")>>),
      Tag("stop", <<Leaf("stpid", "1"), Leaf("stpnm", "Clark"), Empty("lat"), Leaf("lon", "-87.6")>>),
      Tag("stop", <<Leaf("stpid", "3"), Leaf("stpnm", "Foster"), Leaf("lon", "-87.6")>>),
      Tag("stop", <<Leaf("stpid", "4"), Leaf("stpnm", "Devon"), Leaf("lat", "41.9")>>),
      Tag("stop", <<Leaf("stpid", "5"), Leaf("lat", "41.9"), Leaf("lon", "-87.6")>>) }

StopPoint ==
    Tag("pt", <<Leaf("seq", "1"), Leaf("lat", "41.9"), Leaf("lon", "-87.6"), Leaf("typ", "S"),
                Leaf("stpid", "1"), Leaf("stpnm", "Clark"), Leaf("pdist", "0.5")>>)
WayPoint ==
    Tag("pt", <<Leaf("seq", "2"), Leaf("lat", "41.8"), Leaf("lon", "-87.7"), Leaf("typ", "W")>>)
PtrTags ==
    { Tag("ptr", <<Leaf("pid", "1180"), Leaf("ln", "26788.9"), Leaf("rtdir", "North Bound"),
                   StopPoint, WayPoint>>),
      Tag("ptr", <<Leaf("pid", "1180"), Leaf("rtdir", "South Bound"), WayPoint>>) }

SbHead == << Leaf("nm", "Detour"), Leaf("sbj", "Detour"), Leaf("dtl", "Full text"),
             Leaf("brf", "Short text"), Leaf("prty", "low") >>
SrvcKids ==
    { << >>,
      << <<Text("\n"), Leaf("rt", "8"), Text("\n")>> >>,
      << <<Leaf("stpid", "456")>>, <<Leaf("rt", "8")>> >>,
      << <<Leaf("stpid", "456"), Leaf("rtdir", "North Bound"), Leaf("rt", "8")>> >>,
      << << >> >> }
SrvcTags(kidss) == [i \in 1..Len(kidss) |-> Tag("srvc", kidss[i])]
SbTags == {Tag("sb", SbHead \o SrvcTags(k)) : k \in SrvcKids}

\* the documents the server may answer an operation with
TimeDocs == {Soup(<<Leaf("tm", "20171112 20:07:47")>>), Soup(<<>>)}
RouteVehicleDocs ==
    { Soup(<<>>),
      Soup(<<Tag("vehicle", VehicleHead \o <<Leaf("dly", "true")>>)>>),
      Soup(<<Tag("vehicle", <<Leaf("vid", "1870"), Leaf("tmstmp", "20171112 20:07")>>
                            \o Tail(Tail(VehicleHead)))>>) }
RouteDocs ==
    { Soup(<<>>),
      Soup(<<Tag("route", <<Leaf("rt", "49"), Leaf("rtnm", "Western")>>),
             Tag("route", <<Leaf("rt", "8"), Leaf("rtnm", "Halsted")>>)>>) }
DirectionDocs ==
    { Soup(<<>>), Soup(<<Leaf("dir", "North Bound"), Leaf("dir", "South Bound")>>) }
PredictionDocs ==
    { Soup(<<>>),
      Soup(<<Tag("prd", <<Leaf("tmstmp", "20171112 20:07"), Leaf("typ", "A"),
                          Leaf("stpid", "456"), Leaf("stpnm", "Clark"), Leaf("vid", "1870"),
                          Leaf("dstp", "1200"), Leaf("rt", "49"), Leaf("rtdir", "North Bound"),
                          Leaf("des", "Berwyn"), Leaf("prdtm", "20171112 20:15")>>)>>) }
VehicleDocs == {Soup(t) : t \in SeqsUpTo(VehicleTags, MaxVehicles)}
StopDocs == {Soup(t) : t \in SeqsUpTo(StopTags, MaxStops)}
PatternDocs == {Soup(t) : t \in SeqsUpTo(PtrTags, MaxPatterns)}
BulletinDocs == {Soup(t) : t \in SeqsUpTo(SbTags, MaxBulletins)}
PredictionOps == {"get_vehicle_predictions", "get_stop_predictions"}
BulletinOps == {"get_route_service_bulletins", "get_stop_service_bulletins"}
Docs(o) ==
    CASE o = "get_time"             -> TimeDocs
      [] o = "get_vehicles"         -> VehicleDocs
      [] o = "get_route_vehicles"   -> RouteVehicleDocs
      [] o = "get_routes"           -> RouteDocs
      [] o = "get_route_directions" -> DirectionDocs
      [] o = "get_route_stops"      -> StopDocs
      [] o = "get_pattern"          -> PatternDocs
      [] o = "get_route_patterns"   -> PatternDocs
      [] o \in PredictionOps        -> PredictionDocs
      [] o \in BulletinOps          -> BulletinDocs

\* the parsing an operation does after _grab_url has returned
Parse(o, soup) ==
    CASE o = "get_time"             -> get_time_parse(soup)
      [] o = "get_vehicles"         -> get_vehicles_parse(soup)
      [] o = "get_route_vehicles"   -> get_route_vehicles_parse(soup)
      [] o = "get_routes"           -> get_routes_parse(soup)
      [] o = "get_route_directions" -> get_route_directions_parse(soup)
      [] o = "get_route_stops"      -> get_route_stops_parse(soup)
      [] o = "get_pattern"          -> get_pattern_parse(soup)
      [] o = "get_route_patterns"   -> get_route_patterns_parse(soup)
      [] o \in PredictionOps        -> parse_predictions(soup)
      [] o \in BulletinOps          -> parse_service_bulletins(soup)

\* ------------------------------------------------------------------ state
VARIABLES
    self,               \* the client's attributes
    ctor,               \* the arguments __init__ was given
    pc,                 \* "idle", "grab" (in _grab_url), "returned", "raised"
    op,                 \* the public operation in progress or last ended
    url,                \* the url of the current fetch
    attempts_remaining, \* _grab_url's local
    delay,              \* _grab_url's local
    attempts,           \* urlopen calls made by the current fetch
    sleeps,             \* the time.sleep durations of the current fetch, in order
    lastOutcome,        \* the outcome of the latest urlopen call
    xml,                \* the response _grab_url returned
    result              \* what the operation returned or raised

vars == <<self, ctor, pc, op, url, attempts_remaining, delay, attempts, sleeps,
          lastOutcome, xml, result>>

\* exceptions urlopen raises: URLError, HTTPError (an HTTP error status; a
\* subclass of URLError) and HTTPException (not a URLError)
ErrorKinds == {"URLError", "HTTPError", "HTTPException"}
\* isinstance(e, URLError)
IsURLError(kind) == kind \in {"URLError", "HTTPError"}

\* __init__
Configs ==
    [api_key : {"api_key"}, retry_urls : BOOLEAN, retry_attempts : 0..MaxAttempts,
     retry_delay : 1..MaxDelay, retry_backoff : 1..MaxBackoff]

NoUrl == [root |-> "", version |-> "", method |-> "", params |-> EmptyDict]
NoOutcome == [kind |-> "none", attempt |-> 0]

Init ==
    /\ self \in Configs
    /\ ctor = self
    /\ pc = "idle"
    /\ op = ""
    /\ url = NoUrl
    /\ attempts_remaining = 0
    /\ delay = 0
    /\ attempts = 0
    /\ sleeps = <<>>
    /\ lastOutcome = NoOutcome
    /\ xml = NoneNode
    /\ result = NoResult

\* _build_api_url
build_api_url(method, params) ==
    [root |-> CTA_API_ROOT_URL, version |-> CTA_API_VERSION, method |-> method,
     params |-> DictSet(params, "key", self.api_key)]

Dict1(k, v) == DictSet(EmptyDict, k, v)

\* a public operation up to its call of _grab_url, and _grab_url up to its loop
Begin(o, u) ==
    /\ pc \in {"idle", "returned", "raised"}
    /\ op' = o
    /\ url' = u
    /\ attempts_remaining' = self.retry_attempts
    /\ delay' = self.retry_delay
    /\ attempts' = 0
    /\ sleeps' = <<>>
    /\ lastOutcome' = NoOutcome
    /\ xml' = NoneNode
    /\ result' = NoResult
    /\ pc' = "grab"
    /\ UNCHANGED <<self, ctor>>

get_time == Begin("get_time", build_api_url("gettime", EmptyDict))

get_route_vehicles(route_id) ==
    Begin("get_route_vehicles", build_api_url("getvehicles", Dict1("rt", route_id)))

get_routes == Begin("get_routes", build_api_url("getroutes", EmptyDict))

get_route_directions(route_id) ==
    Begin("get_route_directions", build_api_url("getdirections", Dict1("rt", route_id)))

get_route_patterns(route_id) ==
    Begin("get_route_patterns", build_api_url("getpatterns", Dict1("rt", route_id)))

get_vehicle_predictions(vehicle_ids) ==
    Begin("get_vehicle_predictions",
          build_api_url("getpredictions", Dict1("vid", vehicle_ids)))

get_stop_predictions(stop_ids) ==
    Begin("get_stop_predictions",
          build_api_url("getpredictions", Dict1("stpid", stop_ids)))

get_vehicles(vehicle_ids, route_ids, time_res) ==
    Begin("get_vehicles",
          build_api_url("getvehicles",
                        IF vehicle_ids # <<>>
                        THEN DictSet(Dict1("tmres", time_res), "vid", vehicle_ids)
                        ELSE DictSet(Dict1("tmres", time_res), "rt", route_ids)))

get_route_stops(route_id, direction) ==
    Begin("get_route_stops",
          build_api_url("getstops", DictSet(Dict1("rt", route_id), "dir", direction)))

get_pattern(pattern_id) ==
    Begin("get_pattern", build_api_url("getpatterns", Dict1("pid", pattern_id)))

get_route_service_bulletins(route_id, direction) ==
    Begin("get_route_service_bulletins",
          build_api_url("getservicebulletins",
                        IF direction # PyNone
                        THEN DictSet(Dict1("rt", route_id), "rtdir", direction)
                        ELSE Dict1("rt", route_id)))

get_stop_service_bulletins(stop_id) ==
    Begin("get_stop_service_bulletins",
          build_api_url("getservicebulletins", Dict1("stpid", stop_id)))

\* variant: while attempts_remaining > 0
LoopGuardOffByOne(ar) == ar > 0
\* while attempts_remaining > 1
LoopGuard(ar) == ar > 1

\* variant: delay += self.retry_backoff
NextDelayAdds(d, backoff) == d + backoff
\* delay *= self.retry_backoff
NextDelay(d, backoff) == d * backoff

\* variant: the countdown and the back-off are also written to the client
RetryStepOnSelf(s, ar, d) ==
    [self |-> [s EXCEPT !.retry_attempts = ar - 1, !.retry_delay = NextDelay(d, s.retry_backoff)],
     slept |-> d, attempts_remaining |-> ar - 1, delay |-> NextDelay(d, s.retry_backoff)]
\* the except branch: sleep, count down, back off; the client is not touched
RetryStep(s, ar, d) ==
    [self |-> s, slept |-> d, attempts_remaining |-> ar - 1,
     delay |-> NextDelay(d, s.retry_backoff)]

\* urlopen raises inside the loop's try and the error is caught
urlopen_raises_caught(kind) ==
    /\ pc = "grab"
    /\ LoopGuard(attempts_remaining)
    /\ IsURLError(kind)
    /\ LET r == RetryStep(self, attempts_remaining, delay)
       IN  /\ self' = r.self
           /\ sleeps' = Append(sleeps, r.slept)
           /\ attempts_remaining' = r.attempts_remaining
           /\ delay' = r.delay
    /\ attempts' = attempts + 1
    /\ lastOutcome' = [kind |-> kind, attempt |-> attempts + 1]
    /\ UNCHANGED <<ctor, pc, op, url, xml, result>>

\* urlopen raises and nothing catches it: in the loop an error that is no
\* URLError, after the loop any error
urlopen_raises_uncaught(kind) ==
    /\ pc = "grab"
    /\ ~(LoopGuard(attempts_remaining) /\ IsURLError(kind))
    /\ attempts' = attempts + 1
    /\ lastOutcome' = [kind |-> kind, attempt |-> attempts + 1]
    /\ result' = Raised(kind, attempts + 1)
    /\ pc' = "raised"
    /\ UNCHANGED <<self, ctor, op, url, attempts_remaining, delay, sleeps, xml>>

\* urlopen returns a response, _grab_url returns it and the operation parses it
urlopen_returns ==
    /\ pc = "grab"
    /\ attempts' = attempts + 1
    /\ lastOutcome' = [kind |-> "ok", attempt |-> attempts + 1]
    /\ \E doc \in Docs(op) :
          /\ xml' = doc
          /\ result' = Parse(op, doc)
    /\ pc' = result'.status
    /\ UNCHANGED <<self, ctor, op, url, attempts_remaining, delay, sleeps>>

Next ==
    \/ get_time
    \/ get_routes
    \/ \E r \in {"49"} : get_route_vehicles(r)
    \/ \E r \in {"49"} : get_route_directions(r)
    \/ \E r \in {"49"} : get_route_patterns(r)
    \/ \E v \in {<<"1870">>} : get_vehicle_predictions(v)
    \/ \E st \in {<<"456">>} : get_stop_predictions(st)
    \/ \E v \in {<<>>, <<"1870">>} : get_vehicles(v, <<"49">>, "s")
    \/ \E d \in {"North Bound"} : get_route_stops("49", d)
    \/ \E p \in {"1180"} : get_pattern(p)
    \/ \E d \in {PyNone, "North Bound"} : get_route_service_bulletins("49", d)
    \/ \E st \in {"456"} : get_stop_service_bulletins(st)
    \/ \E kind \in ErrorKinds : urlopen_raises_caught(kind)
    \/ \E kind \in ErrorKinds : urlopen_raises_uncaught(kind)
    \/ urlopen_returns

Spec == Init /\ [][Next]_vars

\* ================================================================ claims
RECURSIVE Pow(_, _)
Pow(b, k) == IF k = 0 THEN 1 ELSE b * Pow(b, k - 1)

RECURSIVE SumSeq(_)
SumSeq(q) == IF q = <<>> THEN 0 ELSE Head(q) + SumSeq(Tail(q))

\* sum of d * b^k for k in 0..n-1
RECURSIVE BackoffSum(_, _, _)
BackoffSum(d, b, n) == IF n = 0 THEN 0 ELSE BackoffSum(d, b, n - 1) + d * Pow(b, n - 1)

\* the direct children of a tag that are elements of a given name
Children(tag, name) ==
    SelectSeq(tag.kids, LAMBDA n : n.kind = "tag" /\ n.name = name)
HasChild(tag, name) == Children(tag, name) # <<>>
\* the text of a child element that holds exactly one string
TextOf(node) == IF Len(node.kids) = 1 THEN node.kids[1].string ELSE "None"
ChildText(tag, name) == TextOf(Children(tag, name)[1])

\* C1: a fetch whose first N attempts were caught and whose attempt N+1
\* succeeded has made N+1 attempts and slept N times, the k-th sleep lasting
\* retry_delay * retry_backoff^k, so its total delay is the sum of these (0
\* when the first attempt succeeds), and it has handed on the response.
C1_BackoffSchedule ==
    lastOutcome.kind = "ok" =>
        /\ attempts = Len(sleeps) + 1
        /\ lastOutcome.attempt = attempts
        /\ \A k \in 0..(Len(sleeps) - 1) :
              sleeps[k + 1] = self.retry_delay * Pow(self.retry_backoff, k)
        /\ SumSeq(sleeps) = BackoffSum(self.retry_delay, self.retry_backoff, attempts - 1)
        /\ xml # NoneNode
        /\ pc \in {"returned", "raised"}

C1_Witness ==
    /\ lastOutcome.kind = "ok"
    /\ self.retry_attempts = 3
    /\ attempts = 3
    /\ self.retry_delay = 2
    /\ self.retry_backoff = 2
    /\ sleeps = <<2, 4>>
    /\ SumSeq(sleeps) = 6

\* C2: with retry_attempts = M >= 1, a fetch never makes more than M attempts,
\* and a fetch that ends with a transient error has made exactly M attempts,
\* propagates the error of attempt M unmodified, and has slept only M - 1
\* times: no sleep follows the final attempt.
C2_FinalErrorPropagates ==
    self.retry_attempts >= 1 =>
        /\ attempts <= self.retry_attempts
        /\ (pc = "raised" /\ IsURLError(lastOutcome.kind)) =>
              /\ attempts = self.retry_attempts
              /\ lastOutcome.attempt = self.retry_attempts
              /\ result.status = "raised"
              /\ result.error = lastOutcome
              /\ Len(sleeps) = self.retry_attempts - 1

C2_Witness ==
    /\ pc = "raised"
    /\ self.retry_attempts = 3
    /\ attempts = 3
    /\ result.error = [kind |-> "URLError", attempt |-> 3]
    /\ Len(sleeps) = 2

\* C3: a client constructed with retry_urls = False makes a single urlopen
\* attempt per fetch and never sleeps.
C3_RetryDisabledSingleAttempt ==
    ~self.retry_urls => (attempts <= 1 /\ sleeps = <<>>)

\* C4: an attempt that ends with an HTTP error status is not retried and
\* causes no sleep: it ends the fetch and is passed to the caller.
C4_HttpErrorNotRetried ==
    lastOutcome.kind = "HTTPError" =>
        /\ pc = "raised"
        /\ result.error = lastOutcome
        /\ Len(sleeps) < attempts

\* ---- get_vehicles
VehicleRequired == {"vid", "tmstmp", "lat", "lon", "hdg", "pid", "rt", "des", "pdist"}
WellFormedVehicle(tag) == \A f \in VehicleRequired : HasChild(tag, f)
HasTrueDly(tag) ==
    \E i \in 1..Len(tag.kids) :
        /\ tag.kids[i].kind = "tag"
        /\ tag.kids[i].name = "dly"
        /\ tag.kids[i].kids = <<Text("true")>>
WithoutDly(tag) ==
    Tag(tag.name, SelectSeq(tag.kids, LAMBDA n : ~(n.kind = "tag" /\ n.name = "dly")))

\* C5: when every vehicle tag of the response has its required fields (and,
\* as in the API's documents, at most one dly tag),
\* get_vehicles returns (whatever the dly tags are), one record per vehicle
\* tag, whose 'delayed' is True exactly when the tag holds a dly tag with the
\* text "true", and whose other fields are those of the same tag without dly.
C5_DelayedIffDlyTrue ==
    (op = "get_vehicles" /\ lastOutcome.kind = "ok") =>
        LET tags == Children(xml, "vehicle")
        IN  (\A i \in 1..Len(tags) : WellFormedVehicle(tags[i])) =>
                /\ pc = "returned"
                /\ Len(result.value) = Len(tags)
                /\ \A i \in 1..Len(tags) :
                      /\ result.value[i].delayed = HasTrueDly(tags[i])
                      /\ [result.value[i] EXCEPT !.delayed = FALSE]
                            = VehicleRecord(WithoutDly(tags[i]))
                      /\ result.value[i].id = ChildText(tags[i], "vid")

C5_Witness ==
    /\ op = "get_vehicles"
    /\ pc = "returned"
    /\ Len(result.value) = 1
    /\ ~HasChild(Children(xml, "vehicle")[1], "dly")
    /\ result.value[1].delayed = FALSE
    /\ result.value[1].destination = "Berwyn"

\* ---- get_route_stops
HasCoordinates(tag) == HasChild(tag, "lat") /\ HasChild(tag, "lon")
CompleteStop(tag) ==
    HasCoordinates(tag) /\ HasChild(tag, "stpid") /\ HasChild(tag, "stpnm")
StopTagsOf(soup) == Children(soup, "stop")
Count(q, P(_)) == Cardinality({i \in 1..Len(q) : P(q[i])})

IsBulletinOp == op \in BulletinOps
BulletinRequired == {"sbj", "dtl", "brf", "prty"}
WellFormedBulletin(tag) == \A f \in BulletinRequired : HasChild(tag, f)

\* C7: an sb tag without srvc children gives a bulletin with an empty
\* 'affects' list: the call returns and the bulletin is in the returned list.
C7_NoSrvcEmptyAffects ==
    (IsBulletinOp /\ lastOutcome.kind = "ok") =>
        LET tags == Children(xml, "sb")
        IN  (\A i \in 1..Len(tags) : WellFormedBulletin(tags[i])) =>
                \A i \in 1..Len(tags) :
                    ~HasChild(tags[i], "srvc") =>
                        /\ pc = "returned"
                        /\ Len(result.value) = Len(tags)
                        /\ result.value[i].affects = <<>>

\* the entries of the stpid and rt children of a sequence of elements
RECURSIVE EntriesOf(_)
EntriesOf(elems) ==
    IF elems = <<>> THEN <<>>
    ELSE LET e == Head(elems)
             here == IF e.kind = "tag" /\ e.name = "stpid" THEN << <<"stop", TextOf(e)>> >>
                     ELSE IF e.kind = "tag" /\ e.name = "rt" THEN << <<"route", TextOf(e)>> >>
                     ELSE <<>>
         IN  here \o EntriesOf(Tail(elems))
RECURSIVE EntriesOfAll(_)
EntriesOfAll(srvcs) ==
    IF srvcs = <<>> THEN <<>>
    ELSE EntriesOf(Head(srvcs).kids) \o EntriesOfAll(Tail(srvcs))

\* C8: the 'affects' list of an sb's bulletin holds, in document order, one
\* entry per stpid child and per rt child of each of the sb's srvc tags, and
\* nothing else.
C8_AffectsCoversEverySrvc ==
    (IsBulletinOp /\ pc = "returned") =>
        LET tags == Children(xml, "sb")
        IN  \A i \in 1..Len(tags) :
                result.value[i].affects = EntriesOfAll(Children(tags[i], "srvc"))

\* ---- get_pattern
\* C9: when the fetched document holds more than one ptr tag, get_pattern
\* raises the ambiguous-id error and returns no pattern; the error comes after
\* the successful fetch, whose last urlopen call stays the last one.
C9_AmbiguousPatternFails ==
    (op = "get_pattern" /\ lastOutcome.kind = "ok" /\ Len(Children(xml, "ptr")) > 1) =>
        /\ pc = "raised"
        /\ result.status = "raised"
        /\ result.error.kind = "Exception"
        /\ result.value = <<>>
        /\ lastOutcome.attempt = attempts
        /\ attempts = Len(sleeps) + 1

C9_Witness ==
    /\ op = "get_pattern"
    /\ pc = "raised"
    /\ Len(Children(xml, "ptr")) = 2
    /\ result.error.kind = "Exception"

\* C10: no step changes the client's configuration from the values given at
\* construction, and every step that starts a fetch, also after a call that
\* used up its retries or ended in an error, starts it with retry_attempts
\* attempts and a first delay of retry_delay.
C10_ConfigurationFrame ==
    [][/\ self' = ctor
       /\ ctor' = ctor
       /\ (pc # "grab" /\ pc' = "grab") =>
              /\ attempts_remaining' = ctor.retry_attempts
              /\ delay' = ctor.retry_delay
              /\ attempts' = 0]_vars

C10_Witness ==
    /\ pc = "raised"
    /\ ctor.retry_attempts = 3
    /\ attempts = 3
    /\ Len(sleeps) = 2
    /\ self = ctor
    /\ ENABLED get_pattern("1180")

====
